---- MODULE Spec2Model ----
(***************************************************************************)
(* Session / cart generation engine of data_simulator.py: generate_users   *)
(* followed by generate_sessions, as main does.  Every call of the shared  *)
(* random generator is a nondeterministic choice from a small set of       *)
(* outcomes.  Probabilities are exact fixed-point numbers.                 *)
(***************************************************************************)
EXTENDS Integers, Sequences, FiniteSets, TLC

VARIABLES
    n_users,          \* argument of generate_users
    template_weights, \* the MEALTIME_TEMPLATE_WEIGHTS mapping as the run holds it
    catalog,          \* argument of generate_sessions: sequence of item ids
    users,            \* list built by generate_users, read by generate_sessions
    pc,               \* position of the program
    events,           \* generate_sessions: events
    audit,            \* per event: role evaluated, probabilities used (history)
    session_counter,  \* generate_sessions: session_counter
    user_idx,         \* index of `user` in the for loop over users (0 = before)
    order_dates,      \* sorted day offsets of the current user
    order_idx,        \* number of order dates of the current user consumed
    sess,             \* locals of the current session
    cart,             \* the current session's cart
    role,             \* locals of the current role evaluation
    last_draw,        \* the uniform draw of the latest candidate evaluation
    probe             \* inputs and results of directly applied functions

vars == << n_users, catalog, template_weights, users, pc, events, audit, session_counter, user_idx,
           order_dates, order_idx, sess, cart, role, last_draw, probe >>

(***************************************************************************)
(* Bounds of the exploration.                                              *)
(***************************************************************************)
MaxUsers == 1
NDays == 2
MaxEvents == 2

(***************************************************************************)
(* Fixed-point probabilities: a probability p is the integer p * PDen.     *)
(* PDen = 4000 * 25 * 20 * 5 * 20 holds every product the code can form:   *)
(* completion_prob is in twentieths, the segment multiplier in tenths, the *)
(* weekend factor 23/20, and the modifiers 2/25, 3/5 or 1/20, 2/5, 3/20.   *)
(***************************************************************************)
PDen == 4000 * 25 * 20 * 5 * 20

Scale(p, num, den) == (p \div den) * num

Prob(num, den) == Scale(PDen, num, den)

Min(a, b) == IF a <= b THEN a ELSE b

Max(a, b) == IF a >= b THEN a ELSE b

Range(s) == { s[i] : i \in 1..Len(s) }

RECURSIVE SumSeq(_)
SumSeq(s) == IF s = << >> THEN 0 ELSE s[1] + SumSeq(Tail(s))

(***************************************************************************)
(* Menu catalog: the records of build_menu_catalog that the explored       *)
(* catalogs draw from.  price in INR, popularity_score in hundredths.      *)
(***************************************************************************)
MenuItem(id) ==
    CASE id = "ITEM_001" ->
           [category |-> "Main", cuisine |-> "Mughlai", is_veg |-> FALSE, price |-> 299,
            meal_role |-> "anchor", meal_times |-> {"lunch", "dinner"}, popularity_score |-> 50]
      [] id = "ITEM_002" ->
           [category |-> "Main", cuisine |-> "Mughlai", is_veg |-> FALSE, price |-> 399,
            meal_role |-> "anchor", meal_times |-> {"lunch", "dinner"}, popularity_score |-> 45]
      [] id = "ITEM_003" ->
           [category |-> "Main", cuisine |-> "Mughlai", is_veg |-> TRUE, price |-> 229,
            meal_role |-> "anchor", meal_times |-> {"lunch", "dinner"}, popularity_score |-> 55]
      [] id = "ITEM_019" ->
           [category |-> "Main", cuisine |-> "Street Food", is_veg |-> TRUE, price |-> 59,
            meal_role |-> "anchor", meal_times |-> {"breakfast", "lunch", "snacks"},
            popularity_score |-> 70]
      [] id = "ITEM_033" ->
           [category |-> "Side", cuisine |-> "North Indian", is_veg |-> TRUE, price |-> 49,
            meal_role |-> "complement", meal_times |-> {"lunch", "dinner"},
            popularity_score |-> 65]
      [] id = "ITEM_060" ->
           [category |-> "Drink", cuisine |-> "North Indian", is_veg |-> TRUE, price |-> 39,
            meal_role |-> "finisher", meal_times |-> {"breakfast", "snacks"},
            popularity_score |-> 70]

(***************************************************************************)
(* MEAL_TEMPLATES, completion_prob in twentieths.                          *)
(***************************************************************************)
MEAL_TEMPLATES(name) ==
    CASE name = "biryani_meal" ->
           [anchors |-> <<"ITEM_001", "ITEM_002", "ITEM_003", "ITEM_011">>,
            complements |-> <<"ITEM_033", "ITEM_034", "ITEM_035">>,
            addons |-> <<"ITEM_040", "ITEM_041", "ITEM_044">>,
            finishers |-> <<"ITEM_050", "ITEM_051", "ITEM_064", "ITEM_063">>,
            completion_prob |-> [complement |-> 13, addon |-> 5, finisher |-> 10]]
      [] name = "north_indian_curry" ->
           [anchors |-> <<"ITEM_004", "ITEM_005", "ITEM_006", "ITEM_007">>,
            complements |-> <<"ITEM_030", "ITEM_031", "ITEM_032">>,
            addons |-> <<"ITEM_040", "ITEM_041", "ITEM_035", "ITEM_072">>,
            finishers |-> <<"ITEM_050", "ITEM_052", "ITEM_062", "ITEM_064">>,
            completion_prob |-> [complement |-> 16, addon |-> 4, finisher |-> 9]]
      [] name = "south_indian_breakfast" ->
           [anchors |-> <<"ITEM_009", "ITEM_010", "ITEM_012", "ITEM_013">>,
            complements |-> <<"ITEM_038", "ITEM_039">>,
            addons |-> <<"ITEM_073">>,
            finishers |-> <<"ITEM_066", "ITEM_060">>,
            completion_prob |-> [complement |-> 14, addon |-> 3, finisher |-> 11]]
      [] name = "chinese_meal" ->
           [anchors |-> <<"ITEM_014", "ITEM_015", "ITEM_016", "ITEM_017">>,
            complements |-> <<"ITEM_043", "ITEM_044">>,
            addons |-> <<"ITEM_037">>,
            finishers |-> <<"ITEM_064", "ITEM_061", "ITEM_053">>,
            completion_prob |-> [complement |-> 9, addon |-> 6, finisher |-> 8]]
      [] name = "street_food_snack" ->
           [anchors |-> <<"ITEM_018", "ITEM_019", "ITEM_020", "ITEM_008">>,
            complements |-> << >>,
            addons |-> <<"ITEM_037", "ITEM_035">>,
            finishers |-> <<"ITEM_060", "ITEM_064", "ITEM_065">>,
            completion_prob |-> [complement |-> 2, addon |-> 4, finisher |-> 10]]
      [] name = "continental_meal" ->
           [anchors |-> <<"ITEM_021", "ITEM_022", "ITEM_023">>,
            complements |-> <<"ITEM_037", "ITEM_036">>,
            addons |-> <<"ITEM_042", "ITEM_045">>,
            finishers |-> <<"ITEM_053", "ITEM_061", "ITEM_064">>,
            completion_prob |-> [complement |-> 11, addon |-> 6, finisher |-> 9]]

(***************************************************************************)
(* MEALTIME_TEMPLATE_WEIGHTS: per meal time the (template, weight) pairs   *)
(* in the mapping's order, weights in hundredths.                          *)
(***************************************************************************)
MEALTIME_TEMPLATE_WEIGHTS(meal_time) ==
    CASE meal_time = "breakfast" ->
           << <<"south_indian_breakfast", 50>>, <<"street_food_snack", 30>>,
              <<"continental_meal", 20>> >>
      [] meal_time = "lunch" ->
           << <<"biryani_meal", 25>>, <<"north_indian_curry", 30>>, <<"chinese_meal", 15>>,
              <<"south_indian_breakfast", 10>>, <<"continental_meal", 10>>,
              <<"street_food_snack", 10>> >>
      [] meal_time = "snacks" ->
           << <<"street_food_snack", 50>>, <<"chinese_meal", 20>>, <<"continental_meal", 20>>,
              <<"south_indian_breakfast", 10>> >>
      [] meal_time = "dinner" ->
           << <<"biryani_meal", 30>>, <<"north_indian_curry", 30>>, <<"chinese_meal", 20>>,
              <<"continental_meal", 15>>, <<"street_food_snack", 5>> >>
      [] meal_time = "late_night" ->
           << <<"chinese_meal", 35>>, <<"continental_meal", 35>>, <<"street_food_snack", 20>>,
              <<"biryani_meal", 10>> >>

MealTimes == {"breakfast", "lunch", "snacks", "dinner", "late_night"}

(***************************************************************************)
(* USER_SEGMENTS in the mapping's order: name, order_range, fraction (in   *)
(* hundredths).                                                            *)
(***************************************************************************)
USER_SEGMENTS ==
    << [name |-> "new", lo |-> 1, hi |-> 3, fraction |-> 40],
       [name |-> "regular", lo |-> 4, hi |-> 20, fraction |-> 45],
       [name |-> "power", lo |-> 21, hi |-> 60, fraction |-> 15] >>

\* The cumulative-fraction scan of generate_users over USER_SEGMENTS.
RECURSIVE SegmentScan(_, _, _)
SegmentScan(seg_roll, k, cumulative) ==
    IF k > Len(USER_SEGMENTS) THEN "new"
    ELSE IF seg_roll <= cumulative + USER_SEGMENTS[k].fraction THEN USER_SEGMENTS[k].name
    ELSE SegmentScan(seg_roll, k + 1, cumulative + USER_SEGMENTS[k].fraction)

SegmentOf(seg_roll) == SegmentScan(seg_roll, 1, 0)

SegmentInfo(name) == CHOOSE s \in Range(USER_SEGMENTS) : s.name = name

(***************************************************************************)
(* The outcomes explored for the draws of generate_users' iteration i:     *)
(* city, seg_roll, num_orders, the preferred cuisines kept by the affinity *)
(* draws, and the three Beta draws (hundredths).                           *)
(***************************************************************************)
UserDraws(i) ==
    IF i % 2 = 0
    THEN { [city |-> "Chennai", seg_roll |-> 35, num_orders |-> 2,
            veg_preference |-> 95, price_sensitivity |-> 30, adventurousness |-> 10,
            preferred_cuisines |-> <<"South Indian", "Mughlai">>] }
    ELSE { [city |-> "Mumbai", seg_roll |-> 20, num_orders |-> 1,
            veg_preference |-> 20, price_sensitivity |-> 80, adventurousness |-> 30,
            preferred_cuisines |-> <<"Street Food", "Mughlai">>] }

\* UserProfile(...) as built by the loop body of generate_users for index i.
UserProfile(i, d) ==
    [user_id |-> i + 1,
     city |-> d.city,
     segment |-> SegmentOf(d.seg_roll),
     veg_preference |-> d.veg_preference,
     price_sensitivity |-> d.price_sensitivity,
     adventurousness |-> d.adventurousness,
     preferred_cuisines |-> d.preferred_cuisines,
     num_orders |-> d.num_orders]

\* rng.integers(lo, hi + 1) for the drawn segment.
OrdersInRange(d) ==
    LET s == SegmentInfo(SegmentOf(d.seg_roll)) IN d.num_orders \in s.lo..s.hi

(***************************************************************************)
(* The catalogs explored as the catalog argument.                          *)
(***************************************************************************)
Catalogs ==
    { <<"ITEM_001", "ITEM_033">>,
      <<"ITEM_001", "ITEM_003", "ITEM_033">>,
      <<"ITEM_019", "ITEM_060">> }

\* start_date: Friday 2025-01-03, so that the window holds a weekday and a weekend day.
StartWeekday == 4

Weekday(day_offset) == (StartWeekday + day_offset) % 7

\* the drawn day offsets left in the order of the draw
OrderDateDrawsUnsorted(n) == [1..n -> 0..(NDays - 1)]

\* sorted(rng.choice(n_days, size=n, replace=True)): the non-decreasing sequences.
OrderDateDraws(n) ==
    { s \in [1..n -> 0..(NDays - 1)] : \A i \in 1..(n - 1) : s[i] <= s[i + 1] }

\* The int(hour) values explored for _sample_timestamp's clipped normal draw.
HourDraws == {8, 12}

Clip(x, lo, hi) == IF x < lo THEN lo ELSE IF x > hi THEN hi ELSE x

_get_meal_time(hour) ==
    IF 6 <= hour /\ hour < 10 THEN "breakfast"
    ELSE IF 10 <= hour /\ hour < 15 THEN "lunch"
    ELSE IF 15 <= hour /\ hour < 18 THEN "snacks"
    ELSE IF 18 <= hour /\ hour < 22 THEN "dinner"
    ELSE "late_night"

(***************************************************************************)
(* Template selection (generate_sessions, "Select meal template").         *)
(***************************************************************************)
InCatalog(cat, id) == id \in Range(cat)

\* the lunch weights whatever the meal time
TemplateWeightsLunch(meal_time) == template_weights["lunch"]

\* MEALTIME_TEMPLATE_WEIGHTS.get(meal_time, MEALTIME_TEMPLATE_WEIGHTS["lunch"])
TemplateWeights(meal_time) ==
    IF meal_time \in DOMAIN template_weights THEN template_weights[meal_time]
    ELSE template_weights["lunch"]

\* len(anchor_cuisines & set(user.preferred_cuisines)) for template tname
CuisineOverlap(cat, user, tname) ==
    LET anchor_cuisines ==
            { MenuItem(aid).cuisine :
                aid \in { a \in Range(MEAL_TEMPLATES(tname).anchors) : InCatalog(cat, a) } }
    IN  Cardinality(anchor_cuisines \cap Range(user.preferred_cuisines))

\* template_probs before normalisation, in thousandths: weight * (1.0 + 0.3 * overlap)
TemplateProbs(cat, user, meal_time) ==
    LET w == TemplateWeights(meal_time)
    IN  [j \in 1..Len(w) |-> w[j][2] * (10 + 3 * CuisineOverlap(cat, user, w[j][1]))]

\* the reweighting of l.530 written into the mapping itself
TableReweightedInPlace(table, cat, user, meal_time) ==
    LET bucket == IF meal_time \in DOMAIN table THEN meal_time ELSE "lunch"
    IN  [table EXCEPT ![bucket] =
            [j \in 1..Len(@) |->
                << @[j][1], @[j][2] * (10 + 3 * CuisineOverlap(cat, user, @[j][1])) >>]]

\* the mapping after a session's template selection: template_probs is a new
\* array, np.array(list(template_weights.values())), and the writes of l.530 and
\* l.532 go to that array
TableAfterReweighting(table, cat, user, meal_time) == table

\* the names rng.choice(template_names, p=template_probs) can return
TemplateChoices(cat, user, meal_time) ==
    LET w == TemplateWeights(meal_time)
        p == TemplateProbs(cat, user, meal_time)
    IN  { w[j][1] : j \in { k \in 1..Len(w) : p[k] > 0 } }

(***************************************************************************)
(* Anchor selection.                                                       *)
(***************************************************************************)
ValidAnchors(cat, tname) ==
    SelectSeq(MEAL_TEMPLATES(tname).anchors, LAMBDA aid : InCatalog(cat, aid))

\* the anchor score with a non-matching veg status excluded (veg_match 0)
AnchorScoreExcluding(user, aid) ==
    LET item == MenuItem(aid)
        veg_match == IF (item.is_veg /\ user.veg_preference > 50)
                        \/ (~item.is_veg /\ user.veg_preference <= 50)
                     THEN 10 ELSE 0
        price_match == Max(4000, 40000 - user.price_sensitivity * item.price)
    IN  veg_match * price_match * item.popularity_score

\* veg_match * price_match * popularity_score, scaled by 10 * 40000 * 100
AnchorScore(user, aid) ==
    LET item == MenuItem(aid)
        veg_match == IF (item.is_veg /\ user.veg_preference > 50)
                        \/ (~item.is_veg /\ user.veg_preference <= 50)
                     THEN 10 ELSE 3
        \* 1.0 - price_sensitivity * (price / 400.0), in units of 1/40000
        price_match == Max(4000, 40000 - user.price_sensitivity * item.price)
    IN  veg_match * price_match * item.popularity_score

\* anchor_probs = anchor_scores / anchor_scores.sum(), as fractions << num, den >>
AnchorProbs(cat, user, tname) ==
    LET valid_anchors == ValidAnchors(cat, tname)
        anchor_scores == [k \in 1..Len(valid_anchors) |-> AnchorScore(user, valid_anchors[k])]
    IN  [k \in 1..Len(valid_anchors) |-> << anchor_scores[k], SumSeq(anchor_scores) >>]

\* the anchors rng.choice(list(anchor_ids), p=anchor_probs) can return
AnchorChoices(cat, user, tname) ==
    { aid \in Range(ValidAnchors(cat, tname)) : AnchorScore(user, aid) > 0 }

(***************************************************************************)
(* Role evaluation: base probability, candidates, acceptance probability.  *)
(***************************************************************************)
\* the role list with its first two roles exchanged
RolesAddonFirst == <<"addon", "complement", "finisher">>

Roles == <<"complement", "addon", "finisher">>

\* template.get(f"{role}s", template.get(role, []))
RoleItems(tname, r) ==
    CASE r = "complement" -> MEAL_TEMPLATES(tname).complements
      [] r = "addon" -> MEAL_TEMPLATES(tname).addons
      [] r = "finisher" -> MEAL_TEMPLATES(tname).finishers

\* {"new": 0.7, "regular": 1.0, "power": 1.3}[user.segment], in tenths
SegmentMultiplier(segment) ==
    CASE segment = "new" -> 7
      [] segment = "regular" -> 10
      [] segment = "power" -> 13

\* accept_prob without the two min(0.95, ...) clamps
AcceptProbUnclamped(completion_prob, segment, weekday) ==
    LET p1 == Scale(Prob(completion_prob, 20), SegmentMultiplier(segment), 10)
    IN  IF weekday >= 5 THEN Scale(p1, 23, 20) ELSE p1

\* accept_prob of a role: completion_prob (twentieths) * segment multiplier,
\* clamped to 0.95, then * 1.15 clamped to 0.95 when weekday >= 5
AcceptProb(completion_prob, segment, weekday) ==
    LET base_accept_prob == Prob(completion_prob, 20)
        p1 == Min(Prob(95, 100), Scale(base_accept_prob, SegmentMultiplier(segment), 10))
    IN  IF weekday >= 5 THEN Min(Prob(95, 100), Scale(p1, 23, 20)) ELSE p1

\* [cid for cid in role_items if cid in item_lookup and cid not in cart]
ValidCandidates(cat, role_items, c) ==
    SelectSeq(role_items, LAMBDA cid : InCatalog(cat, cid) /\ cid \notin Range(c))

\* NoisePool without the `iid not in cart` test
NoisePoolIgnoringCart(cat, c, valid_candidates) ==
    SelectSeq(cat, LAMBDA iid : iid \notin Range(valid_candidates))

\* [iid for iid in all_item_ids if iid not in cart and iid not in valid_candidates]
NoisePool(cat, c, valid_candidates) ==
    SelectSeq(cat, LAMBDA iid : iid \notin Range(c) /\ iid \notin Range(valid_candidates))

\* the sample size without the cap of 3
NoiseSizeUncapped(cat, c, valid_candidates) ==
    Len(cat) - Len(c) - Len(valid_candidates)

\* min(3, len(all_item_ids) - len(cart) - len(valid_candidates))
NoiseSize(cat, c, valid_candidates) ==
    Min(3, Len(cat) - Len(c) - Len(valid_candidates))

\* rng.choice(pool, size=k, replace=False).tolist(): the ordered samples without
\* replacement. numpy raises unless 0 <= k <= len(pool).
NoiseDraws(pool, k) ==
    IF k < 0 \/ k > Len(pool) THEN {}
    ELSE { s \in [1..k -> Range(pool)] : \A i, j \in 1..k : i # j => s[i] # s[j] }

\* cand_accept without the meal-time modifier
CandAcceptAnyTime(accept_prob, item, is_noise, user, meal_time) ==
    LET p1 == IF is_noise THEN Scale(accept_prob, 2, 25) ELSE accept_prob
        p2 == IF item.is_veg /\ user.veg_preference < 30 THEN Scale(p1, 3, 5)
              ELSE IF ~item.is_veg /\ user.veg_preference > 70 THEN Scale(p1, 1, 20)
              ELSE p1
    IN  IF item.price > 200 /\ user.price_sensitivity > 70 THEN Scale(p2, 2, 5) ELSE p2

\* cand_accept with the non-veg modifier 0.5 in place of 0.05
CandAcceptMildNonVeg(accept_prob, item, is_noise, user, meal_time) ==
    LET p1 == IF is_noise THEN Scale(accept_prob, 2, 25) ELSE accept_prob
        p2 == IF item.is_veg /\ user.veg_preference < 30 THEN Scale(p1, 3, 5)
              ELSE IF ~item.is_veg /\ user.veg_preference > 70 THEN Scale(p1, 10, 20)
              ELSE p1
        p3 == IF item.price > 200 /\ user.price_sensitivity > 70 THEN Scale(p2, 2, 5)
              ELSE p2
    IN  IF meal_time \notin item.meal_times THEN Scale(p3, 3, 20) ELSE p3

\* cand_accept of one candidate: the modifiers applied in the code's order
CandAccept(accept_prob, item, is_noise, user, meal_time) ==
    LET p1 == IF is_noise THEN Scale(accept_prob, 2, 25) ELSE accept_prob
        p2 == IF item.is_veg /\ user.veg_preference < 30 THEN Scale(p1, 3, 5)
              ELSE IF ~item.is_veg /\ user.veg_preference > 70 THEN Scale(p1, 1, 20)
              ELSE p1
        p3 == IF item.price > 200 /\ user.price_sensitivity > 70 THEN Scale(p2, 2, 5)
              ELSE p2
    IN  IF meal_time \notin item.meal_times THEN Scale(p3, 3, 20) ELSE p3

\* the comparison with <= in place of <
AcceptedAtBoundary(draw, cand_accept) == IF draw <= cand_accept THEN 1 ELSE 0

\* 1 if rng.random() < cand_accept else 0
Accepted(draw, cand_accept) == IF draw < cand_accept THEN 1 ELSE 0

\* The outcomes explored for rng.random() in [0, 1): the least value and the
\* boundary value cand_accept itself.
UniformDraws(p) == { d \in {0, p} : 0 <= d /\ d < PDen }

(***************************************************************************)
(* Event features.                                                         *)
(***************************************************************************)
\* truncation to 2 decimals in place of rounding
Truncate2(v, n) == (100 * v) \div n

\* round(x, 2) of the quotient v / n, in hundredths (ties to even)
Round2(v, n) ==
    LET q == (100 * v) \div n
        r == (100 * v) % n
    IN  IF 2 * r < n THEN q
        ELSE IF 2 * r > n THEN q + 1
        ELSE IF q % 2 = 0 THEN q ELSE q + 1

\* round(cart_veg_count / len(cart), 2) if cart else 0.0
CartVegRatio(c) ==
    LET cart_veg_count == Cardinality({ i \in 1..Len(c) : MenuItem(c[i]).is_veg })
    IN  IF c # << >> THEN Round2(cart_veg_count, Len(c)) ELSE 0

\* sum(item_lookup[cid].price for cid in cart)
CartPrices(c) == SumSeq([i \in 1..Len(c) |-> MenuItem(c[i]).price])

\* list(set(...)) iterates a set of strings in an order fixed by the string hash
\* seed of the process running the program; two of those orders are explored.
NameOrder(seed) ==
    IF seed = 0
    THEN <<"Main", "Side", "Drink", "Mughlai", "North Indian", "Street Food">>
    ELSE <<"Street Food", "North Indian", "Mughlai", "Drink", "Side", "Main">>

\* list(set(...)) under string-hash seed `seed`
ListOfSet(S, seed) == SelectSeq(NameOrder(seed), LAMBDA x : x \in S)

HashSeeds == {0, 1}

\* the event snapshotting the cart after the candidate's decision
EventAfterDecision(user, ss, c, cand_id, accepted) ==
    LET after == IF accepted = 1 THEN Append(c, cand_id) ELSE c IN
    [session_id |-> ss.session_id,
     user_id |-> user.user_id,
     city |-> user.city,
     user_segment |-> user.segment,
     timestamp |-> [day |-> ss.day, hour |-> ss.hour],
     meal_time |-> ss.meal_time,
     day_of_week |-> Weekday(ss.day),
     is_weekend |-> IF Weekday(ss.day) >= 5 THEN 1 ELSE 0,
     cart_items |-> after,
     cart_item_count |-> Len(after),
     cart_total_price |-> CartPrices(after),
     cart_veg_ratio |-> CartVegRatio(after),
     last_item_added |-> after[Len(after)],
     cart_categories |-> { MenuItem(after[i]).category : i \in 1..Len(after) },
     cart_cuisines |-> { MenuItem(after[i]).cuisine : i \in 1..Len(after) },
     candidate_item_id |-> cand_id,
     candidate_is_veg |-> IF MenuItem(cand_id).is_veg THEN 1 ELSE 0,
     candidate_meal_role |-> MenuItem(cand_id).meal_role,
     candidate_accepted |-> accepted,
     meal_template |-> ss.template,
     is_abandoned |-> IF ss.is_abandoned THEN 1 ELSE 0]

\* the event carrying a flag of the candidate in place of the session's
EventFlagPerCandidate(user, ss, c, cand_id, accepted) ==
    [session_id |-> ss.session_id,
     user_id |-> user.user_id,
     city |-> user.city,
     user_segment |-> user.segment,
     timestamp |-> [day |-> ss.day, hour |-> ss.hour],
     meal_time |-> ss.meal_time,
     day_of_week |-> Weekday(ss.day),
     is_weekend |-> IF Weekday(ss.day) >= 5 THEN 1 ELSE 0,
     cart_items |-> c,
     cart_item_count |-> Len(c),
     cart_total_price |-> CartPrices(c),
     cart_veg_ratio |-> CartVegRatio(c),
     last_item_added |-> c[Len(c)],
     cart_categories |-> { MenuItem(c[i]).category : i \in 1..Len(c) },
     cart_cuisines |-> { MenuItem(c[i]).cuisine : i \in 1..Len(c) },
     candidate_item_id |-> cand_id,
     candidate_is_veg |-> IF MenuItem(cand_id).is_veg THEN 1 ELSE 0,
     candidate_meal_role |-> MenuItem(cand_id).meal_role,
     candidate_accepted |-> accepted,
     meal_template |-> ss.template,
     is_abandoned |-> accepted]

\* The dict appended to events for one candidate evaluation. cart_categories and
\* cart_cuisines hold the set given to list(); DataFrame orders them.
Event(user, ss, c, cand_id, accepted) ==
    [session_id |-> ss.session_id,
     user_id |-> user.user_id,
     city |-> user.city,
     user_segment |-> user.segment,
     timestamp |-> [day |-> ss.day, hour |-> ss.hour],
     meal_time |-> ss.meal_time,
     day_of_week |-> Weekday(ss.day),
     is_weekend |-> IF Weekday(ss.day) >= 5 THEN 1 ELSE 0,
     cart_items |-> c,
     cart_item_count |-> Len(c),
     cart_total_price |-> CartPrices(c),
     cart_veg_ratio |-> CartVegRatio(c),
     last_item_added |-> c[Len(c)],
     cart_categories |-> { MenuItem(c[i]).category : i \in 1..Len(c) },
     cart_cuisines |-> { MenuItem(c[i]).cuisine : i \in 1..Len(c) },
     candidate_item_id |-> cand_id,
     candidate_is_veg |-> IF MenuItem(cand_id).is_veg THEN 1 ELSE 0,
     candidate_meal_role |-> MenuItem(cand_id).meal_role,
     candidate_accepted |-> accepted,
     meal_template |-> ss.template,
     is_abandoned |-> IF ss.is_abandoned THEN 1 ELSE 0]

\* pd.DataFrame(events) as produced by a process whose string hash seed is `seed`
DataFrame(evs, seed) ==
    [i \in 1..Len(evs) |->
        [evs[i] EXCEPT !.cart_categories = ListOfSet(@, seed),
                       !.cart_cuisines = ListOfSet(@, seed)]]

(***************************************************************************)
(* State of the program.                                                   *)
(***************************************************************************)
NoSession ==
    [session_id |-> 0, day |-> 0, hour |-> 0, meal_time |-> "", template |-> "",
     is_abandoned |-> FALSE]

NoRole(k) ==
    [idx |-> k, accept_prob |-> 0, valid_candidates |-> << >>,
     noise_candidates |-> << >>, cand_idx |-> 0]

NoDraw == [draw |-> -1, cand_accept |-> -1]

NoProbe == [kind |-> "none"]

\* `user` of the for loop over users
User == users[user_idx]

AllCandidates == role.valid_candidates \o role.noise_candidates

Init ==
    /\ n_users \in 0..MaxUsers
    /\ template_weights = [m \in MealTimes |-> MEALTIME_TEMPLATE_WEIGHTS(m)]
    /\ catalog \in Catalogs
    /\ users = << >>
    /\ pc = "generate_users"
    /\ events = << >>
    /\ audit = << >>
    /\ session_counter = 0
    /\ user_idx = 0
    /\ order_dates = << >>
    /\ order_idx = 0
    /\ sess = NoSession
    /\ cart = << >>
    /\ role = NoRole(0)
    /\ last_draw = NoDraw
    /\ probe = NoProbe

\* the loop of generate_users running once more than n_users times
GenerateUserOnceMore ==
    /\ pc = "generate_users"
    /\ Len(users) <= n_users
    /\ \E d \in UserDraws(Len(users)) :
         /\ OrdersInRange(d)
         /\ users' = Append(users, UserProfile(Len(users), d))
    /\ UNCHANGED << n_users, catalog, template_weights, pc, events, audit, session_counter,
                    user_idx, order_dates, order_idx, sess, cart, role, last_draw,
                    probe >>

(***************************************************************************)
(* generate_users: one iteration of `for i in range(n_users)`.             *)
(***************************************************************************)
GenerateUser ==
    /\ pc = "generate_users"
    /\ Len(users) < n_users
    /\ \E d \in UserDraws(Len(users)) :
         /\ OrdersInRange(d)
         /\ users' = Append(users, UserProfile(Len(users), d))
    /\ UNCHANGED << n_users, catalog, template_weights, pc, events, audit, session_counter,
                    user_idx, order_dates, order_idx, sess, cart, role, last_draw, probe >>

\* generate_users returns; main calls generate_sessions, which sets up
\* events = [] and session_counter = 0.
GenerateUsersReturn ==
    /\ pc = "generate_users"
    /\ Len(users) = n_users
    /\ pc' = "user_loop"
    /\ events' = << >>
    /\ session_counter' = 0
    /\ UNCHANGED << n_users, catalog, template_weights, users, audit, user_idx, order_dates,
                    order_idx, sess, cart, role, last_draw, probe >>

(***************************************************************************)
(* generate_sessions.                                                      *)
(***************************************************************************)
\* every user given a single order date, whatever their num_orders
NextUserSingleOrder ==
    /\ pc = "user_loop"
    /\ user_idx < Len(users)
    /\ user_idx' = user_idx + 1
    /\ order_dates' \in OrderDateDraws(1)
    /\ order_idx' = 0
    /\ pc' = "session_loop"
    /\ UNCHANGED << n_users, catalog, template_weights, users, events, audit, session_counter,
                    sess, cart, role, last_draw, probe >>

\* for user in users: draw the sorted order dates
NextUser ==
    /\ pc = "user_loop"
    /\ user_idx < Len(users)
    /\ user_idx' = user_idx + 1
    /\ order_dates' \in OrderDateDraws(users[user_idx + 1].num_orders)
    /\ order_idx' = 0
    /\ pc' = "session_loop"
    /\ UNCHANGED << n_users, catalog, template_weights, users, events, audit, session_counter,
                    sess, cart, role, last_draw, probe >>

\* the user's order dates are exhausted; the locals of the loop body are dead
EndUser ==
    /\ pc = "session_loop"
    /\ order_idx = Len(order_dates)
    /\ pc' = "user_loop"
    /\ order_dates' = << >>
    /\ order_idx' = 0
    /\ sess' = NoSession
    /\ UNCHANGED << n_users, catalog, template_weights, users, events, audit, session_counter,
                    user_idx, cart, role, last_draw, probe >>

\* df = pd.DataFrame(events); return df
Finish ==
    /\ pc = "user_loop"
    /\ user_idx = Len(users)
    /\ pc' = "done"
    /\ UNCHANGED << n_users, catalog, template_weights, users, events, audit, session_counter,
                    user_idx, order_dates, order_idx, sess, cart, role, last_draw, probe >>

\* the skip leaving the loop over the user's order dates (`break`)
SessionSkippedBreak ==
    /\ pc = "session_loop"
    /\ order_idx < Len(order_dates)
    /\ Len(events) < MaxEvents
    /\ \E h \in HourDraws :
         LET hour == Clip(h, 0, 23)
             meal_time == _get_meal_time(hour)
         IN  /\ template_weights' =
                   TableAfterReweighting(template_weights, catalog, User, meal_time)
             /\ \E chosen_template_name \in TemplateChoices(catalog, User, meal_time) :
                 /\ ValidAnchors(catalog, chosen_template_name) = << >>
                 /\ sess' = [session_id |-> session_counter + 1,
                             day |-> order_dates[order_idx + 1],
                             hour |-> hour,
                             meal_time |-> meal_time,
                             template |-> chosen_template_name,
                             is_abandoned |-> sess.is_abandoned]
    /\ session_counter' = session_counter + 1
    /\ order_idx' = Len(order_dates)
    /\ cart' = << >>
    /\ UNCHANGED << n_users, catalog, users, pc, events, audit, user_idx,
                    order_dates, role, last_draw, probe >>

\* A session whose chosen template has no anchor in the catalog: `continue`.
SessionSkippedUncapped ==
    /\ pc = "session_loop"
    /\ order_idx < Len(order_dates)
    /\ \E h \in HourDraws :
         LET hour == Clip(h, 0, 23)
             meal_time == _get_meal_time(hour)
         IN  /\ template_weights' =
                   TableAfterReweighting(template_weights, catalog, User, meal_time)
             /\ \E chosen_template_name \in TemplateChoices(catalog, User, meal_time) :
                 /\ ValidAnchors(catalog, chosen_template_name) = << >>
                 /\ sess' = [session_id |-> session_counter + 1,
                             day |-> order_dates[order_idx + 1],
                             hour |-> hour,
                             meal_time |-> meal_time,
                             template |-> chosen_template_name,
                             is_abandoned |-> sess.is_abandoned]
    /\ session_counter' = session_counter + 1
    /\ order_idx' = order_idx + 1
    /\ cart' = << >>
    /\ UNCHANGED << n_users, catalog, users, pc, events, audit, user_idx,
                    order_dates, role, last_draw, probe >>

\* The skipped session, explored while the event list is shorter than MaxEvents.
SessionSkipped ==
    /\ Len(events) < MaxEvents
    /\ SessionSkippedUncapped

\* A session up to the abandonment draw: timestamp, template, anchor, flag.
SessionAnchoredUncapped ==
    /\ pc = "session_loop"
    /\ order_idx < Len(order_dates)
    /\ \E h \in HourDraws :
         LET hour == Clip(h, 0, 23)
             meal_time == _get_meal_time(hour)
         IN  /\ template_weights' =
                   TableAfterReweighting(template_weights, catalog, User, meal_time)
             /\ \E chosen_template_name \in TemplateChoices(catalog, User, meal_time) :
                 /\ ValidAnchors(catalog, chosen_template_name) # << >>
                 /\ \E anchor_id \in AnchorChoices(catalog, User, chosen_template_name) :
                      \E is_abandoned \in BOOLEAN :
                         /\ cart' = << anchor_id >>
                         /\ sess' = [session_id |-> session_counter + 1,
                                     day |-> order_dates[order_idx + 1],
                                     hour |-> hour,
                                     meal_time |-> meal_time,
                                     template |-> chosen_template_name,
                                     is_abandoned |-> is_abandoned]
    /\ session_counter' = session_counter + 1
    /\ role' = NoRole(1)
    /\ pc' = "role_loop"
    /\ UNCHANGED << n_users, catalog, users, events, audit, user_idx,
                    order_dates, order_idx, last_draw, probe >>

\* The anchored session, explored while the event list is shorter than MaxEvents.
SessionAnchored ==
    /\ Len(events) < MaxEvents
    /\ SessionAnchoredUncapped

\* the empty role leaving the role loop (`break`)
RoleSkippedToEnd ==
    /\ pc = "role_loop"
    /\ role.idx <= Len(Roles)
    /\ RoleItems(sess.template, Roles[role.idx]) = << >>
    /\ role' = NoRole(Len(Roles) + 1)
    /\ UNCHANGED << n_users, catalog, template_weights, users, pc, events, audit,
                    session_counter, user_idx, order_dates, order_idx, sess, cart,
                    last_draw, probe >>

\* for role in [...]: the template's list for the role is empty: `continue`
RoleSkipped ==
    /\ pc = "role_loop"
    /\ role.idx <= Len(Roles)
    /\ RoleItems(sess.template, Roles[role.idx]) = << >>
    /\ role' = NoRole(role.idx + 1)
    /\ UNCHANGED << n_users, catalog, template_weights, users, pc, events, audit,
                    session_counter, user_idx, order_dates, order_idx, sess, cart,
                    last_draw, probe >>

\* for role in [...]: base probability, candidates, noise draw
RoleStarted ==
    /\ pc = "role_loop"
    /\ role.idx <= Len(Roles)
    /\ LET r == Roles[role.idx]
           role_items == RoleItems(sess.template, r)
           cp == MEAL_TEMPLATES(sess.template).completion_prob[r]
           valid_candidates == ValidCandidates(catalog, role_items, cart)
       IN  /\ role_items # << >>
           /\ \E noise_candidates \in
                    NoiseDraws(NoisePool(catalog, cart, valid_candidates),
                               NoiseSize(catalog, cart, valid_candidates)) :
                 IF valid_candidates \o noise_candidates = << >>
                 THEN /\ role' = NoRole(role.idx + 1)
                      /\ pc' = "role_loop"
                 ELSE /\ role' = [idx |-> role.idx,
                                  accept_prob |-> AcceptProb(cp, User.segment, Weekday(sess.day)),
                                  valid_candidates |-> valid_candidates,
                                  noise_candidates |-> noise_candidates,
                                  cand_idx |-> 1]
                      /\ pc' = "cand_loop"
    /\ UNCHANGED << n_users, catalog, template_weights, users, events, audit, session_counter,
                    user_idx, order_dates, order_idx, sess, cart, last_draw,
                    probe >>

\* the accepted candidate put in front of the cart
CartPrepend(c, cand_id, accepted) ==
    IF accepted = 1 THEN << cand_id >> \o c ELSE c

\* if accepted == 1: cart.append(cand_id)
CartAppend(c, cand_id, accepted) ==
    IF accepted = 1 THEN Append(c, cand_id) ELSE c

\* for cand_id in all_candidates: probability, draw, event, cart update
EvaluateCandidate ==
    /\ pc = "cand_loop"
    /\ LET cand_id == AllCandidates[role.cand_idx]
           is_noise == cand_id \in Range(role.noise_candidates)
           cand_accept == CandAccept(role.accept_prob, MenuItem(cand_id), is_noise,
                                     User, sess.meal_time)
       IN  \E draw \in UniformDraws(cand_accept) :
              LET accepted == Accepted(draw, cand_accept) IN
              /\ events' = Append(events, Event(User, sess, cart, cand_id,
                                                accepted))
              /\ audit' = Append(audit, [role |-> Roles[role.idx],
                                         accept_prob |-> role.accept_prob,
                                         cand_accept |-> cand_accept,
                                         is_noise |-> is_noise])
              /\ last_draw' = [draw |-> draw, cand_accept |-> cand_accept]
              /\ cart' = CartAppend(cart, cand_id, accepted)
    /\ IF role.cand_idx = Len(AllCandidates)
       THEN /\ role' = NoRole(role.idx + 1)
            /\ pc' = "role_loop"
       ELSE /\ role' = [role EXCEPT !.cand_idx = @ + 1]
            /\ pc' = "cand_loop"
    /\ UNCHANGED << n_users, catalog, template_weights, users, session_counter, user_idx,
                    order_dates, order_idx, sess, probe >>

\* the override landing on the first event of the run
MarkFirst(evs) == [evs EXCEPT ![1].is_abandoned = 1]

\* events[-1]["is_abandoned"] = 1
MarkLast(evs) == [evs EXCEPT ![Len(evs)].is_abandoned = 1]

\* After the role loop: the last-event override draw, then the next order date.
SessionEnd ==
    /\ pc = "role_loop"
    /\ role.idx > Len(Roles)
    /\ \E override \in BOOLEAN :
         events' = IF override /\ Len(events) > 0 THEN MarkLast(events) ELSE events
    /\ order_idx' = order_idx + 1
    /\ pc' = "session_loop"
    /\ sess' = NoSession
    /\ cart' = << >>
    /\ role' = NoRole(0)
    /\ last_draw' = NoDraw
    /\ UNCHANGED << n_users, catalog, template_weights, users, audit, session_counter, user_idx,
                    order_dates, probe >>

Next ==
    \/ GenerateUser
    \/ GenerateUsersReturn
    \/ NextUser
    \/ EndUser
    \/ Finish
    \/ SessionSkipped
    \/ SessionAnchored
    \/ RoleSkipped
    \/ RoleStarted
    \/ EvaluateCandidate
    \/ SessionEnd

Spec == Init /\ [][Next]_vars

(***************************************************************************)
(* Whole runs of generate_sessions, every session explored whatever the    *)
(* length of the event list, on a catalog of an anchor and a complement    *)
(* and on a catalog of a single street-food anchor. The program is one     *)
(* sequential process: whenever a step is possible it is eventually taken. *)
(***************************************************************************)
RunCatalogs == { <<"ITEM_001", "ITEM_033">>, <<"ITEM_019">> }

InitRun ==
    /\ n_users \in 0..MaxUsers
    /\ template_weights = [m \in MealTimes |-> MEALTIME_TEMPLATE_WEIGHTS(m)]
    /\ catalog \in RunCatalogs
    /\ users = << >>
    /\ pc = "generate_users"
    /\ events = << >>
    /\ audit = << >>
    /\ session_counter = 0
    /\ user_idx = 0
    /\ order_dates = << >>
    /\ order_idx = 0
    /\ sess = NoSession
    /\ cart = << >>
    /\ role = NoRole(0)
    /\ last_draw = NoDraw
    /\ probe = NoProbe

NextRun ==
    \/ GenerateUser
    \/ GenerateUsersReturn
    \/ NextUser
    \/ EndUser
    \/ Finish
    \/ SessionSkippedUncapped
    \/ SessionAnchoredUncapped
    \/ RoleSkipped
    \/ RoleStarted
    \/ EvaluateCandidate
    \/ SessionEnd

SpecRun == InitRun /\ [][NextRun]_vars /\ WF_vars(NextRun)

(***************************************************************************)
(* The functions of the role evaluation applied directly to bounded        *)
(* inputs: Init draws the inputs, one action per function applies it.      *)
(***************************************************************************)
MaxCart == 3

Segments == {"new", "regular", "power"}

\* sequences over S of length at most n
RECURSIVE SeqsUpTo(_, _)
SeqsUpTo(S, n) ==
    IF n = 0 THEN { << >> }
    ELSE LET shorter == SeqsUpTo(S, n - 1)
         IN  shorter \cup { Append(q, x) : q \in shorter, x \in S }

AcceptProbInputs ==
    [kind : {"AcceptProb"}, completion_prob : 0..20, segment : Segments,
     weekday : 0..6, applied : {FALSE}]

CandAcceptInputs ==
    [kind : {"CandAccept"},
     accept_prob : { AcceptProb(cp, sg, wd) :
                       cp \in {0, 2, 10, 13, 16, 20}, sg \in Segments, wd \in {4, 5} },
     is_noise : BOOLEAN,
     is_veg : BOOLEAN,
     price : {200, 201},
     veg_preference : {29, 30, 70, 71, 95},
     price_sensitivity : {70, 71},
     applied : {FALSE}]

CartVegRatioInputs ==
    [kind : {"CartVegRatio"},
     cart : SeqsUpTo({"ITEM_001", "ITEM_003", "ITEM_033"}, MaxCart),
     applied : {FALSE}]

\* catalogs of the noise draw: one with more than three items outside the cart
NoiseCatalogs ==
    { <<"ITEM_001", "ITEM_003", "ITEM_033">>,
      <<"ITEM_001", "ITEM_003", "ITEM_019", "ITEM_033", "ITEM_060">> }

\* the carts a session can hold over catalog cat: duplicate-free, not empty
CartsOf(cat) ==
    { c \in SeqsUpTo(Range(cat), MaxCart - 1) :
        /\ Len(c) >= 1
        /\ \A i, j \in 1..Len(c) : i # j => c[i] # c[j] }

TemplateNames ==
    {"biryani_meal", "north_indian_curry", "south_indian_breakfast", "chinese_meal",
     "street_food_snack", "continental_meal"}

\* the non-empty role lists of the templates
RoleLists ==
    { RoleItems(t, r) : t \in TemplateNames, r \in Range(Roles) } \ { << >> }

NoiseInputs ==
    UNION { { [kind |-> "Noise", catalog |-> cat, cart |-> c, role_items |-> ri,
               applied |-> FALSE] : c \in CartsOf(cat), ri \in RoleLists } :
            cat \in NoiseCatalogs }

\* the two user profiles of generate_users' draws
ProbeUsers == { UserProfile(i, d) : i \in {0, 1}, d \in UserDraws(0) \cup UserDraws(1) }

TemplateChoiceInputs ==
    [kind : {"TemplateChoice"}, hour : 0..23, catalog : Catalogs, user : ProbeUsers,
     applied : {FALSE}]

\* catalogs of the anchor selection: matching and non-matching anchors, and one
\* whose price drives price_match below its floor
AnchorCatalogs ==
    { <<"ITEM_001", "ITEM_002", "ITEM_003", "ITEM_033">>, <<"ITEM_019", "ITEM_060">> }

AnchorInputs ==
    [kind : {"Anchor"}, catalog : AnchorCatalogs, template : TemplateNames,
     veg_preference : {20, 50, 51, 95}, price_sensitivity : {0, 30, 100},
     applied : {FALSE}]

InitFunctions ==
    /\ n_users = 0
    /\ template_weights = [m \in MealTimes |-> MEALTIME_TEMPLATE_WEIGHTS(m)]
    /\ catalog = << >>
    /\ users = << >>
    /\ pc = "apply"
    /\ events = << >>
    /\ audit = << >>
    /\ session_counter = 0
    /\ user_idx = 0
    /\ order_dates = << >>
    /\ order_idx = 0
    /\ sess = NoSession
    /\ cart = << >>
    /\ role = NoRole(0)
    /\ last_draw = NoDraw
    /\ probe \in AcceptProbInputs \cup CandAcceptInputs \cup CartVegRatioInputs
                  \cup NoiseInputs \cup TemplateChoiceInputs
                  \cup AnchorInputs

Unapplied(kind) == probe.kind = kind /\ ~probe.applied

\* the base probability of a role evaluation
ApplyAcceptProb ==
    /\ Unapplied("AcceptProb")
    /\ probe' = [kind |-> "AcceptProb", applied |-> TRUE, input |-> probe,
                 accept_prob |-> AcceptProb(probe.completion_prob, probe.segment,
                                            probe.weekday)]
    /\ UNCHANGED << n_users, catalog, template_weights, users, pc, events, audit, session_counter,
                    user_idx, order_dates, order_idx, sess, cart, role, last_draw >>

\* cand_accept of a candidate whose meal_times hold the session's meal time, and of
\* the same candidate with meal_times that do not
ApplyCandAccept ==
    /\ Unapplied("CandAccept")
    /\ LET user == [veg_preference |-> probe.veg_preference,
                    price_sensitivity |-> probe.price_sensitivity]
           item(mts) == [is_veg |-> probe.is_veg, price |-> probe.price, meal_times |-> mts]
       IN  probe' = [kind |-> "CandAccept", applied |-> TRUE, input |-> probe,
                     in_time |-> CandAccept(probe.accept_prob, item({"lunch", "dinner"}),
                                            probe.is_noise, user, "lunch"),
                     out_of_time |-> CandAccept(probe.accept_prob, item({"breakfast"}),
                                                probe.is_noise, user, "lunch")]
    /\ UNCHANGED << n_users, catalog, template_weights, users, pc, events, audit, session_counter,
                    user_idx, order_dates, order_idx, sess, cart, role, last_draw >>

\* the cart_veg_ratio expression of the event
ApplyCartVegRatio ==
    /\ Unapplied("CartVegRatio")
    /\ probe' = [kind |-> "CartVegRatio", applied |-> TRUE, input |-> probe,
                 cart_veg_ratio |-> CartVegRatio(probe.cart)]
    /\ UNCHANGED << n_users, catalog, template_weights, users, pc, events, audit, session_counter,
                    user_idx, order_dates, order_idx, sess, cart, role, last_draw >>

\* the candidate pool of a role: valid_candidates, the noise draw, all_candidates
ApplyNoise ==
    /\ Unapplied("Noise")
    /\ LET valid_candidates == ValidCandidates(probe.catalog, probe.role_items, probe.cart)
       IN  \E noise_candidates \in
                 NoiseDraws(NoisePool(probe.catalog, probe.cart, valid_candidates),
                            NoiseSize(probe.catalog, probe.cart, valid_candidates)) :
              probe' = [kind |-> "Noise", applied |-> TRUE, input |-> probe,
                        valid_candidates |-> valid_candidates,
                        noise_candidates |-> noise_candidates,
                        all_candidates |-> valid_candidates \o noise_candidates]
    /\ UNCHANGED << n_users, catalog, template_weights, users, pc, events, audit, session_counter,
                    user_idx, order_dates, order_idx, sess, cart, role, last_draw >>

\* meal_time of a timestamp's hour and the template drawn for it
ApplyTemplateChoice ==
    /\ Unapplied("TemplateChoice")
    /\ LET meal_time == _get_meal_time(probe.hour)
       IN  \E chosen_template_name \in TemplateChoices(probe.catalog, probe.user, meal_time) :
              probe' = [kind |-> "TemplateChoice", applied |-> TRUE, input |-> probe,
                        meal_time |-> meal_time,
                        meal_template |-> chosen_template_name]
    /\ UNCHANGED << n_users, catalog, template_weights, users, pc, events, audit,
                    session_counter, user_idx, order_dates, order_idx, sess, cart, role,
                    last_draw >>

\* valid_anchors, anchor_probs and the anchor drawn, for a template with an
\* anchor in the catalog
ApplyAnchor ==
    /\ Unapplied("Anchor")
    /\ LET user == [veg_preference |-> probe.veg_preference,
                    price_sensitivity |-> probe.price_sensitivity]
       IN  /\ ValidAnchors(probe.catalog, probe.template) # << >>
           /\ \E anchor_id \in AnchorChoices(probe.catalog, user, probe.template) :
                 probe' = [kind |-> "Anchor", applied |-> TRUE, input |-> probe,
                           valid_anchors |-> ValidAnchors(probe.catalog, probe.template),
                           anchor_probs |-> AnchorProbs(probe.catalog, user, probe.template),
                           anchor_id |-> anchor_id]
    /\ UNCHANGED << n_users, catalog, template_weights, users, pc, events, audit,
                    session_counter, user_idx, order_dates, order_idx, sess, cart, role,
                    last_draw >>

NextFunctions ==
    \/ ApplyAnchor
    \/ ApplyTemplateChoice
    \/ ApplyAcceptProb
    \/ ApplyCandAccept
    \/ ApplyCartVegRatio
    \/ ApplyNoise

SpecFunctions == InitFunctions /\ [][NextFunctions]_vars

(***************************************************************************)
(* Properties.                                                             *)
(***************************************************************************)
Abs(x) == IF x < 0 THEN -x ELSE x

RoleRank(r) ==
    CASE r = "complement" -> 1
      [] r = "addon" -> 2
      [] r = "finisher" -> 3

\* no anchor id of template tname is an item id of the catalog
NoAnchorInCatalog(tname) ==
    \A k \in 1..Len(MEAL_TEMPLATES(tname).anchors) :
       \A n \in 1..Len(catalog) : catalog[n] # MEAL_TEMPLATES(tname).anchors[k]

\* C1: in every emitted event the candidate item is not one of the items of the
\* event's snapshotted cart.
C1_CandidateNotInCart ==
    \A i \in 1..Len(events) :
       \A k \in 1..Len(events[i].cart_items) :
          events[i].cart_items[k] # events[i].candidate_item_id

\* C1 witness: a noise candidate evaluated against a cart that already holds an
\* accepted item.
C1_Witness ==
    \E i \in 1..Len(events) :
       /\ audit[i].is_noise
       /\ Len(events[i].cart_items) >= 2

\* C2: within a session the events of the complement role come before those of
\* the addon role, which come before those of the finisher role.
C2_RoleOrder ==
    \A i, j \in 1..Len(events) :
       (i < j /\ events[i].session_id = events[j].session_id)
          => RoleRank(audit[i].role) <= RoleRank(audit[j].role)

\* C2 witness: one session has emitted events for all three roles.
C2_Witness ==
    \E i, j, k \in 1..Len(events) :
       /\ events[i].session_id = events[j].session_id
       /\ events[j].session_id = events[k].session_id
       /\ audit[i].role = "complement"
       /\ audit[j].role = "addon"
       /\ audit[k].role = "finisher"

C4_AcceptedIsBernoulli ==
    /\ \A i \in 1..Len(events) : events[i].candidate_accepted \in {0, 1}
    /\ last_draw # NoDraw =>
         /\ last_draw.cand_accept = audit[Len(audit)].cand_accept
         /\ (events[Len(events)].candidate_accepted = 1)
               <=> (last_draw.draw < last_draw.cand_accept)

\* C4 witness: a candidate rejected on a draw equal to its probability, after an
\* accepted candidate.
C4_Witness ==
    /\ Len(events) >= 2
    /\ last_draw.draw = last_draw.cand_accept
    /\ events[Len(events)].candidate_accepted = 0
    /\ events[Len(events) - 1].candidate_accepted = 1

\* C5: cart_veg_ratio is the number of veg items over the cart size rounded to
\* 2 decimals (within half a hundredth of the quotient), and 0.0 for the empty cart.
C5_VegRatioRounded ==
    (probe.kind = "CartVegRatio" /\ probe.applied) =>
       LET c == probe.input.cart
           n == Len(c)
           veg == Cardinality({ k \in 1..n : MenuItem(c[k]).is_veg })
       IN  IF n = 0 THEN probe.cart_veg_ratio = 0
           ELSE 2 * Abs(100 * veg - probe.cart_veg_ratio * n) <= n

\* C5 witness: two veg items in a cart of three give 0.67.
C5_Witness ==
    /\ probe.kind = "CartVegRatio"
    /\ probe.applied
    /\ probe.input.cart = <<"ITEM_001", "ITEM_003", "ITEM_033">>
    /\ probe.cart_veg_ratio = 67

\* C6: with n_users = 0 generate_users returns no users, generate_sessions emits
\* no event, and the program is never stuck before it is done.
C6_EmptyPool ==
    n_users = 0 =>
       /\ users = << >>
       /\ events = << >>
       /\ session_counter = 0
       /\ pc = "done" \/ ENABLED Next

\* C6 witness: the run with n_users = 0 has finished.
C6_Witness == n_users = 0 /\ pc = "done" /\ events = << >>

\* C7: a step that starts a session whose chosen template has no anchor in the
\* catalog emits no event, changes no emitted event, and goes on to the user's
\* next order date.
C7_SkippedSession ==
    [][ (session_counter' = session_counter + 1 /\ NoAnchorInCatalog(sess'.template))
          => /\ events' = events
             /\ audit' = audit
             /\ pc' = "session_loop"
             /\ order_idx' = order_idx + 1
             /\ user_idx' = user_idx
             /\ order_dates' = order_dates ]_vars

\* C7 witness: the user's second session was skipped after the first had emitted
\* events.
C7_Witness ==
    /\ pc = "session_loop"
    /\ sess.session_id = session_counter
    /\ sess.session_id >= 2
    /\ NoAnchorInCatalog(sess.template)
    /\ Len(events) > 0
    /\ order_idx = 2

\* C8: a candidate outside the session's meal time has exactly 0.15 times the
\* acceptance probability of the otherwise identical candidate inside it.
C8_MealTimeFactor ==
    (probe.kind = "CandAccept" /\ probe.applied) =>
       /\ probe.in_time % 20 = 0
       /\ probe.out_of_time = 3 * (probe.in_time \div 20)

\* C8 witness: a noise candidate with a positive probability inside the meal time.
C8_Witness ==
    /\ probe.kind = "CandAccept"
    /\ probe.applied
    /\ probe.input.is_noise
    /\ probe.in_time > 0
    /\ probe.out_of_time > 0

\* the product num/den of the modifiers whose condition holds for a candidate
\* inside the session's meal time
C9_Factor(in) ==
    LET noise == IF in.is_noise THEN <<2, 25>> ELSE <<1, 1>>
        veg == IF in.is_veg /\ in.veg_preference < 30 THEN <<3, 5>> ELSE <<1, 1>>
        nonveg == IF ~in.is_veg /\ in.veg_preference > 70 THEN <<1, 20>> ELSE <<1, 1>>
        price == IF in.price > 200 /\ in.price_sensitivity > 70 THEN <<2, 5>> ELSE <<1, 1>>
    IN  << noise[1] * veg[1] * nonveg[1] * price[1],
           noise[2] * veg[2] * nonveg[2] * price[2] >>

\* C9: the acceptance probability is the role's base probability times exactly
\* the modifiers whose condition holds (0.08 noise, 0.6 veg below 0.3, 0.05
\* non-veg above 0.7, 0.4 price, 0.15 meal time), the two veg modifiers never
\* together; a non-veg, in-template, in-time, cheap candidate at base 0.5 for
\* veg_preference 0.95 has probability 0.025.
C9_ModifierProduct ==
    (probe.kind = "CandAccept" /\ probe.applied) =>
       LET in == probe.input
           f == C9_Factor(in)
       IN  /\ in.accept_prob % (20 * f[2]) = 0
           /\ probe.in_time = f[1] * (in.accept_prob \div f[2])
           /\ probe.out_of_time = 3 * f[1] * (in.accept_prob \div (20 * f[2]))
           /\ ~((in.is_veg /\ in.veg_preference < 30) /\ (~in.is_veg /\ in.veg_preference > 70))
           /\ (in.accept_prob = PDen \div 2 /\ ~in.is_veg /\ ~in.is_noise
                 /\ in.price <= 200 /\ in.veg_preference = 95)
                => (probe.in_time = PDen \div 40 /\ probe.in_time < 3 * (PDen \div 100))

\* C9 witness: the non-veg candidate at base 0.5 for veg_preference 0.95.
C9_Witness ==
    /\ probe.kind = "CandAccept"
    /\ probe.applied
    /\ probe.input.accept_prob = PDen \div 2
    /\ ~probe.input.is_veg
    /\ ~probe.input.is_noise
    /\ probe.input.price <= 200
    /\ probe.input.veg_preference = 95
    /\ probe.in_time = PDen \div 40

\* C10: for a completion probability in [0, 1] the base probability of a role is
\* at most 0.95, every candidate's acceptance probability lies in [0, 0.95], and
\* the computation always yields a value.
C10_ProbabilityRange ==
    /\ (probe.kind = "AcceptProb" /\ probe.applied) =>
          (0 <= probe.accept_prob /\ probe.accept_prob <= 19 * (PDen \div 20))
    /\ (probe.kind = "CandAccept" /\ probe.applied) =>
          /\ 0 <= probe.out_of_time
          /\ probe.out_of_time <= probe.in_time
          /\ probe.in_time <= probe.input.accept_prob
          /\ probe.input.accept_prob <= 19 * (PDen \div 20)
    /\ (probe.kind \in {"AcceptProb", "CandAccept"} /\ ~probe.applied) => ENABLED NextFunctions

\* C10 witness: a power user's weekend role with completion probability 0.80,
\* whose product 1.196 is clamped to 0.95.
C10_Witness ==
    /\ probe.kind = "AcceptProb"
    /\ probe.applied
    /\ probe.input.completion_prob = 16
    /\ probe.input.segment = "power"
    /\ probe.input.weekday = 6
    /\ probe.accept_prob = 19 * (PDen \div 20)

\* the template's item list for the role at position k of the role loop
C11_RoleList(k) ==
    LET t == MEAL_TEMPLATES(sess.template)
    IN  CASE k = 1 -> t.complements
          [] k = 2 -> t.addons
          [] k = 3 -> t.finishers

\* C11: a session's role loop starts at complement and goes on to addon and then
\* finisher, one role at a time; a role whose item list in the template is empty
\* is passed without a pool, a draw or an event, any other role builds its pool;
\* and after the last candidate of a role the loop is at the next role, whatever
\* was accepted.
C11_RoleLoop ==
    [][ /\ (pc = "session_loop" /\ pc' = "role_loop") => role' = NoRole(1)
        /\ (pc = "role_loop" /\ role.idx <= 3) =>
              IF C11_RoleList(role.idx) = << >>
              THEN /\ role' = NoRole(role.idx + 1)
                   /\ pc' = "role_loop"
                   /\ events' = events
                   /\ cart' = cart
              ELSE /\ events' = events
                   /\ cart' = cart
                   /\ \/ /\ pc' = "cand_loop"
                         /\ role'.idx = role.idx
                         /\ role'.cand_idx = 1
                         /\ role'.valid_candidates \o role'.noise_candidates # << >>
                      \/ /\ pc' = "role_loop"
                         /\ role' = NoRole(role.idx + 1)
                         /\ \A n \in 1..Len(catalog) : \E k \in 1..Len(cart) : cart[k] = catalog[n]
        /\ (pc = "role_loop" /\ role.idx > 3) => pc' = "session_loop"
        /\ pc = "cand_loop" =>
              /\ Len(events') = Len(events) + 1
              /\ audit'[Len(audit')].role = <<"complement", "addon", "finisher">>[role.idx]
              /\ IF role.cand_idx < Len(role.valid_candidates) + Len(role.noise_candidates)
                 THEN /\ pc' = "cand_loop"
                      /\ role'.idx = role.idx
                      /\ role'.cand_idx = role.cand_idx + 1
                 ELSE /\ pc' = "role_loop"
                      /\ role' = NoRole(role.idx + 1) ]_vars

\* C11 witness: a street_food_snack session (empty complement list) is past its
\* finisher role after a rejected addon-role candidate and an accepted
\* finisher-role candidate.
C11_Witness ==
    /\ pc = "role_loop"
    /\ role.idx = 4
    /\ sess.template = "street_food_snack"
    /\ \E i, j \in 1..Len(events) :
          /\ events[i].session_id = sess.session_id
          /\ events[j].session_id = sess.session_id
          /\ audit[i].role = "addon"
          /\ events[i].candidate_accepted = 0
          /\ audit[j].role = "finisher"
          /\ events[j].candidate_accepted = 1
    /\ \A i \in 1..Len(events) :
          events[i].session_id = sess.session_id => audit[i].role # "complement"

\* C12: the candidate pool of a role is the role's template items that are in
\* the catalog and not in the cart, in the template's order, followed by the
\* noise items; the noise items are pairwise distinct catalog items, none in
\* the cart, none an in-template candidate, and there are exactly min(3, number
\* of catalog items neither in the cart nor in-template candidates) of them; the
\* draw is always possible.
C12_NoisePool ==
    /\ (probe.kind = "Noise" /\ probe.applied) =>
          LET in == probe.input
              inCart(x) == \E k \in 1..Len(in.cart) : in.cart[k] = x
              inCat(x) == \E k \in 1..Len(in.catalog) : in.catalog[k] = x
              keep == { k \in 1..Len(in.role_items) :
                          inCat(in.role_items[k]) /\ ~inCart(in.role_items[k]) }
              valid == probe.valid_candidates
              noise == probe.noise_candidates
              isValid(x) == \E k \in 1..Len(valid) : valid[k] = x
              rest == { n \in 1..Len(in.catalog) :
                          ~inCart(in.catalog[n]) /\ ~isValid(in.catalog[n]) }
          IN  /\ Len(valid) = Cardinality(keep)
              /\ \A k \in 1..Len(valid) : \E m \in keep : in.role_items[m] = valid[k]
              /\ \A a, b \in 1..Len(valid) :
                    a < b => \E m, n \in keep :
                               m < n /\ in.role_items[m] = valid[a] /\ in.role_items[n] = valid[b]
              /\ probe.all_candidates = valid \o noise
              /\ \A a, b \in 1..Len(noise) : a # b => noise[a] # noise[b]
              /\ \A a \in 1..Len(noise) :
                    inCat(noise[a]) /\ ~inCart(noise[a]) /\ ~isValid(noise[a])
              /\ Len(noise) = IF Cardinality(rest) < 3 THEN Cardinality(rest) ELSE 3
    /\ (probe.kind = "Noise" /\ ~probe.applied) => ENABLED NextFunctions

\* C12 witness: three noise items drawn out of four catalog items outside the
\* cart, for a role with no in-template candidate in the catalog.
C12_Witness ==
    /\ probe.kind = "Noise"
    /\ probe.applied
    /\ Len(probe.input.catalog) = 5
    /\ Len(probe.input.cart) = 1
    /\ probe.valid_candidates = << >>
    /\ Len(probe.noise_candidates) = 3

\* C13: the first event of a session snapshots the one-element cart holding the
\* anchor chosen among the template's anchors, no event being emitted before the
\* first candidate is evaluated; each later event of the session snapshots the
\* cart of the event before it, with that event's candidate appended when it
\* was accepted and unchanged when it was rejected.
C13_Snapshots ==
    /\ \A i \in 1..Len(events) :
          IF i = 1 \/ events[i - 1].session_id # events[i].session_id
          THEN /\ Len(events[i].cart_items) = 1
               /\ \E k \in 1..Len(MEAL_TEMPLATES(events[i].meal_template).anchors) :
                     MEAL_TEMPLATES(events[i].meal_template).anchors[k]
                        = events[i].cart_items[1]
          ELSE events[i].cart_items =
                  IF events[i - 1].candidate_accepted = 1
                  THEN events[i - 1].cart_items \o << events[i - 1].candidate_item_id >>
                  ELSE events[i - 1].cart_items
    /\ (pc = "role_loop" /\ role = NoRole(1)) =>
          /\ Len(cart) = 1
          /\ \A i \in 1..Len(events) : events[i].session_id # sess.session_id

\* C13 witness: a session's three events, the first candidate accepted and the
\* second rejected.
C13_Witness ==
    /\ Len(events) >= 3
    /\ events[1].session_id = events[3].session_id
    /\ events[1].candidate_accepted = 1
    /\ events[2].candidate_accepted = 0
    /\ Len(events[3].cart_items) = 2

\* the indices of the accepted events of session sid, in event order
RECURSIVE C14_AcceptedOf(_, _, _)
C14_AcceptedOf(evs, sid, n) ==
    IF n = 0 THEN << >>
    ELSE LET before == C14_AcceptedOf(evs, sid, n - 1)
         IN  IF evs[n].session_id = sid /\ evs[n].candidate_accepted = 1
             THEN Append(before, n) ELSE before

\* C14: during a session every step leaves the cart as it is or appends one item
\* that is not in it; the cart never holds an item twice; and behind the anchor
\* the cart holds the session's accepted candidates in the order of their
\* events, those of the complement role before those of the addon role before
\* those of the finisher role.
C14_CartAppendOnly ==
    [][ (pc \in {"role_loop", "cand_loop"} /\ pc' \in {"role_loop", "cand_loop"}) =>
          /\ \/ cart' = cart
             \/ /\ Len(cart') = Len(cart) + 1
                /\ \A k \in 1..Len(cart) : cart'[k] = cart[k]
                /\ \A k \in 1..Len(cart) : cart[k] # cart'[Len(cart')]
          /\ \A a, b \in 1..Len(cart') : a # b => cart'[a] # cart'[b]
          /\ LET acc == C14_AcceptedOf(events', sess'.session_id, Len(events'))
             IN  /\ Len(cart') = 1 + Len(acc)
                 /\ \A k \in 1..Len(acc) : cart'[k + 1] = events'[acc[k]].candidate_item_id
                 /\ \A a, b \in 1..Len(acc) :
                       a < b => RoleRank(audit'[acc[a]].role) <= RoleRank(audit'[acc[b]].role)
      ]_vars

\* C14 witness: a cart of three items, the second accepted in the complement
\* role and the third in the addon role.
C14_Witness ==
    /\ pc \in {"role_loop", "cand_loop"}
    /\ Len(cart) = 3
    /\ \E i, j \in 1..Len(events) :
          /\ events[i].session_id = sess.session_id
          /\ events[j].session_id = sess.session_id
          /\ events[i].candidate_item_id = cart[2]
          /\ events[j].candidate_item_id = cart[3]
          /\ audit[i].role = "complement"
          /\ audit[j].role = "addon"
          /\ events[i].candidate_accepted = 1
          /\ events[j].candidate_accepted = 1

\* C15: in every event's cart exactly one item has meal_role "anchor", and it is
\* the first element; no item appended by the role loop is an anchor.
C15_OneAnchor ==
    \A i \in 1..Len(events) :
       LET c == events[i].cart_items
       IN  /\ MenuItem(c[1]).meal_role = "anchor"
           /\ \A k \in 2..Len(c) : MenuItem(c[k]).meal_role # "anchor"

\* C16: in the final output all events sharing a session_id carry the same
\* is_abandoned value.
C16_SameFlagPerSession ==
    pc = "done" =>
       \A i, j \in 1..Len(events) :
          events[i].session_id = events[j].session_id
             => events[i].is_abandoned = events[j].is_abandoned

\* C16, amended: while a session runs, every event emitted for it carries the
\* flag drawn for the session; at any time two events of one session carry the
\* same flag unless the later one is the last event of the session and carries 1.
C16_FlagPerSessionButLast ==
    /\ pc \in {"role_loop", "cand_loop"} =>
          \A i \in 1..Len(events) :
             events[i].session_id = sess.session_id
                => events[i].is_abandoned = (IF sess.is_abandoned THEN 1 ELSE 0)
    /\ \A i, j \in 1..Len(events) :
          (i < j /\ events[i].session_id = events[j].session_id
                 /\ events[i].is_abandoned # events[j].is_abandoned)
             => /\ events[j].is_abandoned = 1
                /\ j = Len(events) \/ events[j + 1].session_id # events[j].session_id

\* C16 witness: the output of a finished run holds a session whose last event is
\* flagged and whose first event is not.
C16_Witness ==
    /\ pc = "done"
    /\ \E i, j \in 1..Len(events) :
          /\ i < j
          /\ events[i].session_id = events[j].session_id
          /\ events[i].is_abandoned = 0
          /\ events[j].is_abandoned = 1

\* C17: the step that ends a session's role loop leaves the events as they are
\* or sets is_abandoned to 1 on the last event of the whole list and changes no
\* other event and no other field; the changed event is of an earlier session
\* when the ending session emitted none; a skipped session changes no event; and
\* no step changes a flag from 1 to 0.
C17_OverrideFrame ==
    [][ /\ (pc = "role_loop" /\ role.idx > 3) =>
              \/ events' = events
              \/ /\ Len(events) > 0
                 /\ Len(events') = Len(events)
                 /\ \A i \in 1..(Len(events) - 1) : events'[i] = events[i]
                 /\ events'[Len(events)] = [events[Len(events)] EXCEPT !.is_abandoned = 1]
                 /\ (\A i \in 1..Len(events) : events[i].session_id # sess.session_id)
                       => events[Len(events)].session_id < sess.session_id
        /\ pc = "session_loop" => events' = events
        /\ \A i \in 1..Len(events) :
              events[i].is_abandoned = 1 => events'[i].is_abandoned = 1 ]_vars

\* C17 witness: the override has just set the flag of the last of two events of
\* a session drawn as not abandoned.
C17_Witness ==
    /\ pc = "session_loop"
    /\ sess = NoSession
    /\ Len(events) >= 2
    /\ events[Len(events)].is_abandoned = 1
    /\ events[Len(events) - 1].is_abandoned = 0
    /\ events[Len(events) - 1].session_id = events[Len(events)].session_id
    /\ session_counter = events[Len(events)].session_id

\* C18: the session's meal-time bucket always has a weight mapping, and the
\* template chosen for the session is a template named in that mapping with a
\* positive weight; a breakfast session never uses biryani_meal.
C18_TemplateInWeights ==
    /\ (probe.kind = "TemplateChoice" /\ probe.applied) =>
          /\ probe.meal_time \in {"breakfast", "lunch", "snacks", "dinner", "late_night"}
          /\ \E k \in 1..Len(MEALTIME_TEMPLATE_WEIGHTS(probe.meal_time)) :
                /\ MEALTIME_TEMPLATE_WEIGHTS(probe.meal_time)[k][1] = probe.meal_template
                /\ MEALTIME_TEMPLATE_WEIGHTS(probe.meal_time)[k][2] > 0
          /\ probe.meal_time = "breakfast" => probe.meal_template # "biryani_meal"
    /\ (probe.kind = "TemplateChoice" /\ ~probe.applied) => ENABLED NextFunctions

\* C18 witness: a late_night session (hour 23) that chose biryani_meal.
C18_Witness ==
    /\ probe.kind = "TemplateChoice"
    /\ probe.applied
    /\ probe.input.hour = 23
    /\ probe.meal_time = "late_night"
    /\ probe.meal_template = "biryani_meal"

\* veg_match * price_match * popularity_score of the claim, scaled by
\* 10 * 40000 * 100, for veg_preference vp and price_sensitivity ps in hundredths
C19_Score(aid, vp, ps) ==
    LET it == MenuItem(aid)
        match == (it.is_veg /\ vp > 50) \/ (~it.is_veg /\ vp <= 50)
        raw == 40000 - ps * it.price
    IN  (IF match THEN 10 ELSE 3) * (IF raw < 4000 THEN 4000 ELSE raw) * it.popularity_score

\* C19: every anchor of the template that is in the catalog has the score
\* veg_match * price_match * popularity_score with veg_match 1.0 or 0.3 and
\* price_match at least 0.1, which is positive; its selection probability is
\* positive, the probabilities add up to 1, and it can be drawn as the anchor.
C19_AnchorSoftPenalty ==
    /\ (probe.kind = "Anchor" /\ probe.applied) =>
          LET in == probe.input
              va == probe.valid_anchors
              pr == probe.anchor_probs
          IN  /\ Len(pr) = Len(va)
              /\ \A k \in 1..Len(va) :
                    /\ pr[k][1] = C19_Score(va[k], in.veg_preference, in.price_sensitivity)
                    /\ pr[k][1] > 0
                    /\ pr[k][2] > 0
                    /\ pr[k][2] = pr[1][2]
              /\ SumSeq([k \in 1..Len(pr) |-> pr[k][1]]) = pr[1][2]
              /\ \E k \in 1..Len(va) : va[k] = probe.anchor_id
    /\ (probe.kind = "Anchor" /\ ~probe.applied) =>
          \A k \in 1..Len(MEAL_TEMPLATES(probe.template).anchors) :
             LET aid == MEAL_TEMPLATES(probe.template).anchors[k]
             IN  (\E n \in 1..Len(probe.catalog) : probe.catalog[n] = aid)
                    => /\ ENABLED ApplyAnchor
                       /\ aid \in AnchorChoices(probe.catalog,
                                                [veg_preference |-> probe.veg_preference,
                                                 price_sensitivity |-> probe.price_sensitivity],
                                                probe.template)

\* C19 witness: for veg_preference 0.95 and price_sensitivity 1.0 the non-veg
\* ITEM_002 at 399, with price_match at its floor, is drawn although the veg
\* ITEM_003 is in the catalog.
C19_Witness ==
    /\ probe.kind = "Anchor"
    /\ probe.applied
    /\ probe.input.veg_preference = 95
    /\ probe.input.price_sensitivity = 100
    /\ probe.anchor_id = "ITEM_002"
    /\ Len(probe.valid_anchors) = 3
    /\ probe.anchor_probs[2][1] = 3 * 4000 * 45

\* C20: no step of generate_sessions changes the catalog, the user profiles or
\* the meal-time weight mapping, which stays the configured
\* MEALTIME_TEMPLATE_WEIGHTS: a session's reweighting is not seen by a later one.
C20_InputsUnchanged ==
    [][ pc # "generate_users" =>
          /\ catalog' = catalog
          /\ users' = users
          /\ template_weights' = template_weights
          /\ \A m \in DOMAIN template_weights' :
                template_weights'[m] = MEALTIME_TEMPLATE_WEIGHTS(m) ]_vars

\* C20 witness: a user's second session has started after a first session whose
\* template selection reweighted biryani_meal (a Mughlai anchor in the catalog,
\* Mughlai among the user's preferred cuisines) and emitted events.
C20_Witness ==
    /\ pc = "role_loop"
    /\ session_counter = 2
    /\ Len(events) > 0
    /\ \E n \in 1..Len(catalog) : catalog[n] = "ITEM_001"
    /\ \E k \in 1..Len(users[user_idx].preferred_cuisines) :
          users[user_idx].preferred_cuisines[k] = "Mughlai"
    /\ events[1].meal_time = "lunch"

\* the number of session ids consumed by the users before the u-th of the pool
C21_IdsBefore(u) == SumSeq([k \in 1..(u - 1) |-> users[k].num_orders])

C22_SumOrders == SumSeq([i \in 1..Len(users) |-> users[i].num_orders])

\* the events of session sid emitted while the role loop was at role r
C22_EventsOf(sid, r) ==
    { i \in 1..Len(events) : events[i].session_id = sid /\ audit[i].role = r }

====
